---- MODULE Spec2Model ----
(***************************************************************************)
(* A model of myshell.c: the command interpreter's dispatch                *)
(* (process_arglist), its launchers (run_command_internal,                 *)
(* run_piped_commands), the redirection preparers, the SIGCHLD handler and *)
(* prepare/finalize, together with the part of the operating system they   *)
(* act on: processes, descriptor tables, pipes and signal dispositions.    *)
(*                                                                         *)
(* Every system call whose result the code tests is an input of the model: *)
(* the call may succeed or report failure, as the code's own branches      *)
(* provide for.                                                            *)
(***************************************************************************)
EXTENDS Integers, Sequences, FiniteSets, TLC

(* ----------------------------- bounds ---------------------------------- *)
MaxDispatches == 2    \* dispatch calls the host makes in one run
MaxProcs == 2         \* processes the run may create (fork fails beyond it)
MaxLen == 3           \* longest token array drawn for the classifier
FdLimit == 7          \* size of a descriptor table (descriptors 0..FdLimit-1)

(* ------------------------ program constants ---------------------------- *)
GENERAL_SUCCESS == 0
GENERAL_FAILURE == -1
PROC_ARGLIST_CONTINUE == 1
PROC_ARGLIST_STOP == 0
PidSlots == 10        \* "int pids[10]"
\* A variant of the accepted pipe count that admits one pipe per slot.
MaxPipeCountAsSlots == PidSlots
MaxPipeCount == 9     \* "if (9 < pipe_count)"
STDIN_FILENO == 0
STDOUT_FILENO == 1

NULL == "NULL"
Words == {"w", "f"}
Tokens == {"w", "|", "&", "<", ">"}

(* ------------------------ token arrays --------------------------------- *)
\* A token array as the tokenizer hands it over: arglist[0..count-1] are the
\* words, arglist[count] is the terminator.
ArgOf(seq) == [k \in 0..Len(seq) |-> IF k < Len(seq) THEN seq[k + 1] ELSE NULL]

\* n pipe operators separating n+1 one-word stages.
RECURSIVE PipeLine(_)
PipeLine(n) == IF n = 0 THEN <<"w">> ELSE PipeLine(n - 1) \o <<"|", "w">>

\* The command lines the host submits: one of each operation kind.
Lines ==
    { <<"w">>, <<"w", "&">>, <<"w", "<", "f">>, <<"w", ">", "f">>, PipeLine(1) }

\* Longer pipelines, up to and just beyond the stage bound.
LongLines == { PipeLine(2), PipeLine(MaxPipeCount), PipeLine(MaxPipeCount + 1) }

(* ------------------------ descriptor tables ---------------------------- *)
Closed == [k |-> "closed", id |-> 0, e |-> "-"]
Tty == [k |-> "tty", id |-> 0, e |-> "-"]
FileObj(mode) == [k |-> "file", id |-> 0, e |-> mode]
PipeEnd(id, e) == [k |-> "pipe", id |-> id, e |-> e]

Fds == 0..(FdLimit - 1)
StdTable == [f \in Fds |-> IF f <= 2 THEN Tty ELSE Closed]
NoTable == [f \in Fds |-> Closed]

FreeFds(t) == {f \in Fds : t[f].k = "closed"}
LowestFree(t) == CHOOSE f \in FreeFds(t) : \A g \in FreeFds(t) : f <= g
\* close(fd): closing a descriptor that is not open (or -1) changes nothing.
CloseFd(t, fd) == IF fd \in Fds THEN [t EXCEPT ![fd] = Closed] ELSE t
\* dup2(old, new) when it succeeds.
Dup2(t, old, new) == IF old = new THEN t ELSE [t EXCEPT ![new] = t[old]]
PipeEndsOf(t) == {f \in Fds : t[f].k = "pipe"}

NoPipe == [k \in 0..1 |-> -1]


(* ------------------------ the classifier ------------------------------- *)
is_piping_command(cnt, args) == \E k \in 0..(cnt - 1) : args[k] = "|"

is_background_command(cnt, args) == args[cnt - 1] = "&"

\* A variant that looks for "<" in the last position.
is_input_redirection_command_last(cnt, args) == (cnt >= 2) /\ (args[cnt - 1] = "<")

is_input_redirection_command(cnt, args) == (cnt >= 2) /\ (args[cnt - 2] = "<")

is_output_redirection_command(cnt, args) == (cnt >= 2) /\ (args[cnt - 2] = ">")

\* The branch process_arglist takes: its if / else-if chain, in source order.
Classify(cnt, args) ==
    IF is_piping_command(cnt, args) THEN "Pipeline"
    ELSE IF is_background_command(cnt, args) THEN "Background"
    ELSE IF is_input_redirection_command(cnt, args) THEN "InputRedirect"
    ELSE IF is_output_redirection_command(cnt, args) THEN "OutputRedirect"
    ELSE "Simple"

\* A variant that stops counting at the first "|".
count_pipes_first_only(cnt, args) ==
    IF \E k \in 0..(cnt - 1) : args[k] = "|" THEN 1 ELSE 0

count_pipes(cnt, args) == Cardinality({k \in 0..(cnt - 1) : args[k] = "|"})

set_pipes_to_null(cnt, args) ==
    [k \in DOMAIN args |-> IF k < cnt /\ args[k] = "|" THEN NULL ELSE args[k]]

\* The argument vector execvp reads from position `from`: the tokens up to the
\* first terminator.
RECURSIVE Argv(_, _)
Argv(args, from) ==
    IF from \notin DOMAIN args \/ args[from] = NULL THEN <<>>
    ELSE <<args[from]>> \o Argv(args, from + 1)

(* ------------------------ processes ------------------------------------ *)
NoArgs == ArgOf(<<>>)

\* What a process keeps once its image is replaced or it has exited: the
\* copies of the interpreter's locals are gone.
DropLocals(c) ==
    [c EXCEPT !.arglist = NoArgs, !.count = 0, !.arglist_index = 0,
              !.pipe_count = 0, !.pipe_from_prev = NoPipe, !.pipe_to_next = NoPipe]

\* exit(status): every descriptor of the process is closed and its dispositions
\* are gone; the process stays a zombie until its parent collects it.
ExitProc(c, status, why) ==
    [DropLocals(c) EXCEPT !.st = "zombie", !.fds = NoTable, !.sigint = "dfl",
                          !.sigchld = "dfl", !.status = status, !.fail = why,
                          !.argv = <<>>]

\* A variant in which the failing child reports success.
ChildFailureStatusClean == GENERAL_SUCCESS

\* What exit(1) in the child reports.
ChildFailureStatus == 1

\* execvp called with a null program name is undefined: it returns -1 or the
\* child takes a SIGSEGV; this is what waitpid would report for the latter.
SigsegvStatus == 11

\* exit after execvp: exit(1) when it returned -1, the signal when it crashed.
ExecFailed(c, o) ==
    IF o = "crash" THEN ExitProc(c, SigsegvStatus, "crash")
    ELSE ExitProc(c, ChildFailureStatus, "exec")

\* A variant in which program replacement also resets an ignored SIGINT.
ExecProcResettingIgnored(c, from) ==
    [DropLocals(c) EXCEPT !.st = "running", !.argv = Argv(c.arglist, from),
                          !.sigint = "dfl"]

\* A successful execvp: the image is replaced, descriptors and the (default or
\* ignored) dispositions are kept.
ExecProc(c, from) ==
    [DropLocals(c) EXCEPT !.st = "running", !.argv = Argv(c.arglist, from)]

\* waitpid collected the process.
ReapProc(c) == [c EXCEPT !.st = "reaped", !.status = 0, !.fail = "none", !.argv = <<>>]

\* The redirection preparers (input: dir = "in", output: dir = "out"), run in the
\* child. o names the call that fails ("ok": none). The result is the handler's
\* return code and the child after it.
RedirTarget(dir) == IF dir = "in" THEN STDIN_FILENO ELSE STDOUT_FILENO
RedirMode(dir) == IF dir = "in" THEN "r" ELSE "w"

preparation_handler_run(c, dir, o) ==
    IF o = "open" \/ FreeFds(c.fds) = {}
    THEN [rc |-> GENERAL_FAILURE, c |-> c]
    ELSE LET fd == LowestFree(c.fds)
             opened == [c EXCEPT !.fds[fd] = FileObj(RedirMode(dir))]
         IN IF o = "dup"
            THEN [rc |-> GENERAL_FAILURE,
                  c |-> [opened EXCEPT !.fds = CloseFd(opened.fds, fd)]]
            ELSE LET dupped == Dup2(opened.fds, fd, RedirTarget(dir))
                 IN [rc |-> GENERAL_SUCCESS,
                     c |-> [opened EXCEPT !.fds = CloseFd(dupped, fd),
                                          !.arglist[c.count - 2] = NULL]]

\* The child branch of run_command_internal, from fork's return to execvp or
\* exit. It touches the child's own descriptor table and dispositions only.
ChildOutcomesCmd(c) ==
    {"ok", "sigchld", "exec"}
        \cup (IF c.arglist[0] = NULL \/ (c.prep # "none" /\ c.count = 2)
              THEN {"crash"} ELSE {})
        \cup (IF c.fg THEN {"sigint"} ELSE {})
        \cup (IF c.prep # "none" THEN {"open", "dup"} ELSE {})

run_command_child(c, o) ==
    IF o = "sigchld" THEN ExitProc(c, ChildFailureStatus, "sigchld")
    ELSE LET c1 == [c EXCEPT !.sigchld = "dfl"]
         IN IF c.fg /\ o = "sigint" THEN ExitProc(c1, ChildFailureStatus, "sigint")
            ELSE LET c2 == IF c.fg THEN [c1 EXCEPT !.sigint = "dfl"] ELSE c1
                     prep == IF c.prep = "none"
                             THEN [rc |-> GENERAL_SUCCESS, c |-> c2]
                             ELSE preparation_handler_run(c2, c.prep, o)
                 IN IF prep.rc # GENERAL_SUCCESS
                    THEN ExitProc(prep.c, ChildFailureStatus,
                                  IF o = "dup" THEN "dup" ELSE "open")
                    ELSE IF o = "exec" \/ prep.c.arglist[0] = NULL
                         THEN ExecFailed(prep.c, o)
                         ELSE ExecProc(prep.c, 0)

\* The child branch of run_piped_commands for stage c.stage.
ChildOutcomesPipe(c) ==
    {"ok", "sigchld", "sigint", "exec"}
        \cup (IF c.arglist[c.arglist_index] = NULL THEN {"crash"} ELSE {})
        \cup (IF c.stage > 0 THEN {"dupin"} ELSE {})
        \cup (IF c.stage < c.pipe_count THEN {"dupout"} ELSE {})

IsOpen(t, fd) == fd \in Fds /\ t[fd].k # "closed"

run_piped_child(c, o) ==
    LET c0 == IF c.pipe_to_next[0] # -1
              THEN [c EXCEPT !.fds = CloseFd(c.fds, c.pipe_to_next[0]),
                             !.pipe_to_next[0] = -1]
              ELSE c
    IN IF o = "sigchld" THEN ExitProc(c0, ChildFailureStatus, "sigchld")
       ELSE IF o = "sigint"
            THEN ExitProc([c0 EXCEPT !.sigchld = "dfl"], ChildFailureStatus, "sigint")
       ELSE LET c1 == [c0 EXCEPT !.sigchld = "dfl", !.sigint = "dfl"]
            IN IF c.stage > 0 /\ (o = "dupin" \/ ~IsOpen(c1.fds, c1.pipe_from_prev[0]))
               THEN ExitProc(c1, ChildFailureStatus, "dupin")
               ELSE LET c2 == IF c.stage > 0
                              THEN [c1 EXCEPT
                                      !.fds = CloseFd(Dup2(c1.fds, c1.pipe_from_prev[0],
                                                           STDIN_FILENO),
                                                      c1.pipe_from_prev[0]),
                                      !.pipe_from_prev[0] = -1]
                              ELSE c1
                    IN IF c.stage < c.pipe_count
                          /\ (o = "dupout" \/ ~IsOpen(c2.fds, c2.pipe_to_next[1]))
                       THEN ExitProc(c2, ChildFailureStatus, "dupout")
                       ELSE LET c3 == IF c.stage < c.pipe_count
                                      THEN [c2 EXCEPT
                                              !.fds = CloseFd(Dup2(c2.fds, c2.pipe_to_next[1],
                                                                   STDOUT_FILENO),
                                                              c2.pipe_to_next[1]),
                                              !.pipe_to_next[1] = -1]
                                      ELSE c2
                            IN IF o = "exec" \/ c3.arglist[c3.arglist_index] = NULL
                               THEN ExecFailed(c3, o)
                               ELSE ExecProc(c3, c3.arglist_index)


(* ------------------------ state ---------------------------------------- *)
VARIABLES
    env,                 \* the run's environment: the command lines and the number
                         \* of calls the host makes, process limit, child scheduling,
                         \* whether blocking waits can be interrupted or fail
    hostState,           \* "start", "ready" (prepare succeeded), "failed", "down",
                         \* "killed" (terminated by SIGINT)
    disp,                \* the interpreter's dispositions [int, chld]
    pfds,                \* the interpreter's descriptor table
    procs,               \* the children ever forked, by process id 1..Len(procs)
    sigchldPending,      \* a SIGCHLD is pending for the interpreter
    hActive,             \* sigchld_handler is running
    pc,                  \* where the interpreter's main flow stands
    dispatches,          \* process_arglist calls made so far
    arglist, count,      \* process_arglist's arguments
    kind,                \* the branch process_arglist took
    is_foreground, preparation_handler, pid, return_code,
    arglist_index, pipe_from_prev, pipe_to_next, pids, pipe_count, i,
    return_value,        \* what the last process_arglist call returned
    nextPipe,            \* pipes created so far
    line,                \* the tokens the current call was given
    forkFailed, pipeFailed, waitFatal,  \* what failed during the current call
    sigFailed, childFailed,  \* a disposition change / a child-local step failed in
                         \* a child of the current call while the call was running
    pipesMade,           \* pipes the current call created
    waitLog,             \* the stages the current call waited for, in order
    swallowed,           \* the wait conditions the current call swallowed
    pidsOverflow         \* a process id was stored outside pids[0..9]

hostVars == <<env, hostState, disp, sigchldPending, hActive>>
callVars == <<pc, dispatches, arglist, count, kind, return_value>>
cmdVars == <<is_foreground, preparation_handler, pid, return_code>>
pipeVars == <<arglist_index, pipe_from_prev, pipe_to_next, pids, pipe_count, i>>
failVars == <<sigFailed, childFailed>>
histVars == <<nextPipe, line, forkFailed, pipeFailed, waitFatal, waitLog, swallowed,
              pidsOverflow, pipesMade, failVars>>
vars == <<hostVars, callVars, cmdVars, pipeVars, histVars, pfds, procs>>

NoPids == [k \in 0..(PidSlots - 1) |-> 0]

\* The state before prepare is called, in environment e and with descriptor
\* table t.
InitFrom(e, t) ==
    /\ env = e
    /\ hostState = "start"
    /\ disp = [int |-> "dfl", chld |-> "dfl"]
    /\ pfds = t
    /\ procs = <<>>
    /\ sigchldPending = FALSE
    /\ hActive = FALSE
    /\ pc = "idle"
    /\ dispatches = 0
    /\ arglist = NoArgs
    /\ count = 0
    /\ kind = "none"
    /\ is_foreground = TRUE
    /\ preparation_handler = "none"
    /\ pid = 0
    /\ return_code = GENERAL_FAILURE
    /\ arglist_index = 0
    /\ pipe_from_prev = NoPipe
    /\ pipe_to_next = NoPipe
    /\ pids = NoPids
    /\ pipe_count = 0
    /\ i = 0
    /\ return_value = PROC_ARGLIST_STOP
    /\ nextPipe = 0
    /\ forkFailed = FALSE
    /\ pipeFailed = FALSE
    /\ waitFatal = FALSE
    /\ waitLog = <<>>
    /\ line = <<>>
    /\ sigFailed = FALSE
    /\ childFailed = FALSE
    /\ pipesMade = 0
    /\ swallowed = {}
    /\ pidsOverflow = FALSE

InitWith(e) == InitFrom(e, StdTable)

Init == InitWith([lines |-> Lines, calls |-> MaxDispatches, nproc |-> MaxProcs,
                  fifo |-> FALSE, intr |-> TRUE])

Pids == DOMAIN procs
Zombies == {p \in Pids : procs[p].st = "zombie"}
\* The interpreter's main flow runs only while the handler does not.
Main == ~hActive

(* ------------------------ prepare / finalize --------------------------- *)
\* A variant that leaves SIGINT as it was.
prepare_keeping_sigint(d, o) ==
    IF o = "ok" THEN [rc |-> GENERAL_SUCCESS, disp |-> [d EXCEPT !.chld = "handler"]]
    ELSE [rc |-> GENERAL_FAILURE, disp |-> d]

\* A variant that never installs the SIGCHLD handler.
prepare_without_handler(d, o) ==
    IF o = "ok" THEN [rc |-> GENERAL_SUCCESS, disp |-> [d EXCEPT !.int = "ign"]]
    ELSE [rc |-> GENERAL_FAILURE, disp |-> d]

\* o names the call that fails ("ok": none).
prepare(d, o) ==
    IF o = "signal" THEN [rc |-> GENERAL_FAILURE, disp |-> d]
    ELSE IF o = "sigaction"
         THEN [rc |-> GENERAL_FAILURE, disp |-> [d EXCEPT !.int = "ign"]]
         ELSE [rc |-> GENERAL_SUCCESS, disp |-> [int |-> "ign", chld |-> "handler"]]

Prepare ==
    /\ Main /\ pc = "idle" /\ hostState = "start"
    /\ \E o \in {"ok", "signal", "sigaction"} :
          LET r == prepare(disp, o)
          IN /\ disp' = r.disp
             /\ hostState' = IF r.rc = GENERAL_SUCCESS THEN "ready" ELSE "failed"
    /\ UNCHANGED <<env, sigchldPending, hActive, callVars, cmdVars, pipeVars,
                   histVars, pfds, procs>>

\* A variant that restores SIGINT only.
finalize_sigint_only(d) ==
    [rc |-> GENERAL_SUCCESS, disp |-> [d EXCEPT !.int = "dfl"]]

\* Both signal() calls are made whatever the dispositions are; their results
\* are not looked at.
finalize(d) == [rc |-> GENERAL_SUCCESS, disp |-> [int |-> "dfl", chld |-> "dfl"]]

\* A pending SIGCHLD is discarded once its disposition is the default (ignore).
Finalize ==
    /\ Main /\ pc = "idle" /\ hostState # "killed"
    /\ LET r == finalize(disp)
       IN /\ disp' = r.disp
          /\ hostState' = IF r.rc = GENERAL_SUCCESS THEN "down" ELSE "failed"
    /\ sigchldPending' = FALSE
    /\ UNCHANGED <<env, hActive, callVars, cmdVars, pipeVars, histVars, pfds, procs>>

(* ------------------------ process_arglist ------------------------------ *)
\* The host loop calls process_arglist after a successful prepare and as long
\* as the previous call returned "continue".
Dispatch ==
    /\ Main /\ pc = "idle" /\ hostState = "ready"
    /\ dispatches < env.calls
    /\ dispatches > 0 => return_value = PROC_ARGLIST_CONTINUE
    /\ \E tokens \in env.lines :
          /\ line' = tokens
          /\ arglist' = ArgOf(tokens)
          /\ count' = Len(tokens)
    /\ dispatches' = dispatches + 1
    /\ pc' = "classify"
    /\ kind' = "none"
    /\ return_value' = PROC_ARGLIST_STOP
    /\ is_foreground' = TRUE /\ preparation_handler' = "none" /\ pid' = 0
    /\ return_code' = GENERAL_FAILURE
    /\ arglist_index' = 0 /\ pipe_from_prev' = NoPipe /\ pipe_to_next' = NoPipe
    /\ pids' = NoPids /\ pipe_count' = 0 /\ i' = 0
    /\ forkFailed' = FALSE /\ pipeFailed' = FALSE /\ waitFatal' = FALSE
    /\ waitLog' = <<>> /\ swallowed' = {}
    /\ sigFailed' = FALSE /\ childFailed' = FALSE /\ pipesMade' = 0
    /\ UNCHANGED <<hostVars, nextPipe, pidsOverflow, pfds, procs>>

BranchPc(k) ==
    CASE k = "Pipeline" -> "run_piped"
      [] k = "Background" -> "bg"
      [] k = "InputRedirect" -> "in"
      [] k = "OutputRedirect" -> "out"
      [] OTHER -> "simple"

ClassifyStep ==
    /\ Main /\ pc = "classify"
    /\ kind' = Classify(count, arglist)
    /\ pc' = BranchPc(kind')
    /\ UNCHANGED <<hostVars, dispatches, arglist, count, return_value, cmdVars,
                   pipeVars, histVars, pfds, procs>>

\* process_arglist's four calls of run_command_internal.
BackgroundBranch ==
    /\ Main /\ pc = "bg"
    /\ arglist' = [arglist EXCEPT ![count - 1] = NULL]
    /\ is_foreground' = FALSE /\ preparation_handler' = "none"
    /\ pc' = "rci_fork"
    /\ UNCHANGED <<hostVars, dispatches, count, kind, return_value, pid, return_code,
                   pipeVars, histVars, pfds, procs>>

ForegroundBranch(at, handler) ==
    /\ Main /\ pc = at
    /\ is_foreground' = TRUE /\ preparation_handler' = handler
    /\ pc' = "rci_fork"
    /\ UNCHANGED <<hostVars, dispatches, arglist, count, kind, return_value, pid,
                   return_code, pipeVars, histVars, pfds, procs>>

InputBranch == ForegroundBranch("in", "in")
OutputBranch == ForegroundBranch("out", "out")
SimpleBranch == ForegroundBranch("simple", "none")

\* A variant that drops the launcher's return code.
process_arglist_result_ignoring(rc) == PROC_ARGLIST_CONTINUE

\* "if (GENERAL_SUCCESS != run_...(...)) goto cleanup;
\*  return_value = PROC_ARGLIST_CONTINUE;"
process_arglist_result(rc) ==
    IF GENERAL_SUCCESS # rc THEN PROC_ARGLIST_STOP ELSE PROC_ARGLIST_CONTINUE

ProcessArglistReturn ==
    /\ Main /\ pc = "ret"
    /\ return_value' = process_arglist_result(return_code)
    /\ pc' = "idle"
    /\ UNCHANGED <<hostVars, dispatches, arglist, count, kind, cmdVars, pipeVars,
                   histVars, pfds, procs>>


(* ------------------------ fork and waitpid ----------------------------- *)
\* The child fork creates: a copy of the interpreter's descriptor table,
\* dispositions and locals at the moment of the call.
NewProc(code, stage) ==
    [st |-> "forked", fds |-> pfds, sigint |-> disp.int, sigchld |-> disp.chld,
     fg |-> is_foreground, code |-> code, prep |-> preparation_handler,
     stage |-> stage, n |-> dispatches,
     arglist |-> arglist, count |-> count, arglist_index |-> arglist_index,
     pipe_count |-> pipe_count, pipe_from_prev |-> pipe_from_prev,
     pipe_to_next |-> pipe_to_next,
     status |-> 0, fail |-> "none", argv |-> <<>>]

CanFork == Len(procs) < env.nproc

\* What a blocking waitpid(p, NULL, 0) can report: the child collected ("ok"),
\* ECHILD when it was collected before, EINTR while it has not terminated, or
\* another error. In an environment without interruptions (env.intr false) the
\* call returns only once the child has terminated.
WaitResults(p) ==
    (IF procs[p].st = "zombie" THEN {"ok"}
     ELSE IF procs[p].st = "reaped" THEN {"echild"}
     ELSE IF env.intr THEN {"eintr"} ELSE {})
        \cup (IF env.intr THEN {"error"} ELSE {})

\* Variants of the test below that do not let EINTR, resp. ECHILD, pass.
wait_failed_on_eintr(r) == (r # "ok") /\ (r # "echild")
wait_failed_on_echild(r) == (r # "ok") /\ (r # "eintr")

\* "(-1 == waitpid(...)) && (errno != ECHILD) && (errno != EINTR)"
wait_failed(r) == (r # "ok") /\ (r # "echild") /\ (r # "eintr")

\* The conditions the code lets pass (ECHILD, EINTR), as they occur.
Swallow(r) == IF r \in {"echild", "eintr"} THEN swallowed \cup {r} ELSE swallowed

AfterWait(p, r) == IF r = "ok" THEN [procs EXCEPT ![p] = ReapProc(procs[p])] ELSE procs

(* ------------------------ run_command_internal ------------------------- *)
RciFork ==
    /\ Main /\ pc = "rci_fork"
    /\ \/ /\ forkFailed' = TRUE
          /\ return_code' = GENERAL_FAILURE
          /\ pc' = "ret"
          /\ UNCHANGED <<pid, procs>>
       \/ /\ CanFork
          /\ procs' = Append(procs, NewProc("cmd", 0))
          /\ pid' = Len(procs) + 1
          /\ pc' = IF is_foreground THEN "rci_wait" ELSE "rci_reap"
          /\ UNCHANGED <<forkFailed, return_code>>
    /\ UNCHANGED <<hostVars, dispatches, arglist, count, kind, return_value,
                   is_foreground, preparation_handler, pipeVars, nextPipe, pipeFailed,
                   waitFatal, waitLog, swallowed, pidsOverflow, line, pipesMade,
                   failVars, pfds>>

RciWait ==
    /\ Main /\ pc = "rci_wait"
    /\ \E r \in WaitResults(pid) :
          /\ procs' = AfterWait(pid, r)
          /\ waitLog' = Append(waitLog, 0)
          /\ swallowed' = Swallow(r)
          /\ waitFatal' = (r = "error")
          /\ return_code' = IF wait_failed(r) THEN GENERAL_FAILURE ELSE GENERAL_SUCCESS
    /\ pc' = "ret"
    /\ UNCHANGED <<hostVars, dispatches, arglist, count, kind, return_value,
                   is_foreground, preparation_handler, pid, pipeVars, nextPipe,
                   forkFailed, pipeFailed, pidsOverflow, line, pipesMade,
                   failVars, pfds>>

\* waitpid(-1, NULL, WNOHANG): collects one terminated child, if there is one.
RciReap ==
    /\ Main /\ pc = "rci_reap"
    /\ \/ \E z \in Zombies : procs' = [procs EXCEPT ![z] = ReapProc(procs[z])]
       \/ Zombies = {} /\ procs' = procs
    /\ return_code' = GENERAL_SUCCESS
    /\ pc' = "ret"
    /\ UNCHANGED <<hostVars, dispatches, arglist, count, kind, return_value,
                   is_foreground, preparation_handler, pid, pipeVars, histVars, pfds>>

(* ------------------------ run_piped_commands --------------------------- *)
PipedStart ==
    /\ Main /\ pc = "run_piped"
    /\ pipe_count' = count_pipes(count, arglist)
    /\ arglist' = set_pipes_to_null(count, arglist)
    /\ arglist_index' = 0 /\ pipe_from_prev' = NoPipe /\ pipe_to_next' = NoPipe
    /\ pids' = NoPids /\ i' = 0
    /\ IF MaxPipeCount < pipe_count'
       THEN return_code' = GENERAL_SUCCESS /\ pc' = "ret"
       ELSE return_code' = GENERAL_FAILURE /\ pc' = "pl_pipe"
    /\ UNCHANGED <<hostVars, dispatches, count, kind, return_value, is_foreground,
                   preparation_handler, pid, histVars, pfds, procs>>

\* pipe(pipe_to_next) when it succeeds: the two lowest free descriptors.
PipeInto(t, id) ==
    LET r == LowestFree(t)
        t1 == [t EXCEPT ![r] = PipeEnd(id, "r")]
        w == LowestFree(t1)
    IN [fds |-> [t1 EXCEPT ![w] = PipeEnd(id, "w")], ends |-> [k \in 0..1 |-> IF k = 0 THEN r ELSE w]]

PipedPipe ==
    /\ Main /\ pc = "pl_pipe"
    /\ \/ /\ i < pipe_count
          /\ pipeFailed' = TRUE
          /\ pc' = "ret"
          /\ UNCHANGED <<pfds, pipe_to_next, nextPipe, pipesMade>>
       \/ /\ i < pipe_count
          /\ Cardinality(FreeFds(pfds)) >= 2
          /\ LET made == PipeInto(pfds, nextPipe + 1)
             IN pfds' = made.fds /\ pipe_to_next' = made.ends
          /\ nextPipe' = nextPipe + 1 /\ pipesMade' = pipesMade + 1
          /\ pc' = "pl_fork"
          /\ UNCHANGED pipeFailed
       \/ /\ ~(i < pipe_count)
          /\ pc' = "pl_fork"
          /\ UNCHANGED <<pfds, pipe_to_next, nextPipe, pipesMade, pipeFailed>>
    /\ UNCHANGED <<hostVars, dispatches, arglist, count, kind, return_value, cmdVars,
                   arglist_index, pipe_from_prev, pids, pipe_count, i,
                   forkFailed, waitFatal, waitLog, swallowed, pidsOverflow, line, failVars,
                   procs>>

PipedFork ==
    /\ Main /\ pc = "pl_fork"
    /\ \/ /\ forkFailed' = TRUE
          /\ pc' = "ret"
          /\ UNCHANGED <<pid, procs>>
       \/ /\ CanFork
          /\ procs' = Append(procs, NewProc("pipe", i))
          /\ pid' = Len(procs) + 1
          /\ pc' = "pl_parent"
          /\ UNCHANGED forkFailed
    /\ UNCHANGED <<hostVars, dispatches, arglist, count, kind, return_value,
                   is_foreground, preparation_handler, return_code, pipeVars, nextPipe,
                   pipeFailed, waitFatal, waitLog, swallowed, pidsOverflow, line, pipesMade,
                   failVars, pfds>>

\* A variant that skips to the array's last terminator.
SkipCommandToTerminator(args, k) ==
    (CHOOSE m \in DOMAIN args : \A n \in DOMAIN args : n <= m) + 1

\* "while (arglist[arglist_index] != NULL) arglist_index++; arglist_index++;"
RECURSIVE SkipCommand(_, _)
SkipCommand(args, k) ==
    IF k \in DOMAIN args /\ args[k] # NULL THEN SkipCommand(args, k + 1) ELSE k + 1

\* A variant that leaves the new pipe's write end open.
ParentClosesKeepingWrite(t, from_prev, to_next) ==
    CloseFd(CloseFd(t, from_prev[0]), from_prev[1])

\* A variant that leaves the previous pipe's read end open.
ParentClosesKeepingRead(t, from_prev, to_next) ==
    CloseFd(CloseFd(t, from_prev[1]), to_next[1])

\* The closes of the parent branch of the launch loop.
ParentCloses(t, from_prev, to_next) ==
    CloseFd(CloseFd(CloseFd(t, from_prev[0]), from_prev[1]), to_next[1])

PipedParent ==
    /\ Main /\ pc = "pl_parent"
    /\ IF i < PidSlots
       THEN pids' = [pids EXCEPT ![i] = pid] /\ UNCHANGED pidsOverflow
       ELSE pidsOverflow' = TRUE /\ UNCHANGED pids
    /\ pfds' = ParentCloses(pfds, pipe_from_prev, pipe_to_next)
    /\ pipe_from_prev' = [k \in 0..1 |-> IF k = 0 THEN pipe_to_next[0] ELSE -1]
    /\ pipe_to_next' = NoPipe
    /\ arglist_index' = SkipCommand(arglist, arglist_index)
    /\ IF i + 1 <= pipe_count
       THEN i' = i + 1 /\ pc' = "pl_pipe"
       ELSE i' = 0 /\ pc' = "pl_wait"
    /\ UNCHANGED <<hostVars, dispatches, arglist, count, kind, return_value, cmdVars,
                   pipe_count, nextPipe, forkFailed, pipeFailed, waitFatal, waitLog,
                   swallowed, line, pipesMade, failVars, procs>>

PipedWait ==
    /\ Main /\ pc = "pl_wait"
    /\ \/ /\ i <= pipe_count
          /\ \E r \in WaitResults(pids[i]) :
                /\ procs' = AfterWait(pids[i], r)
                /\ waitLog' = Append(waitLog, i)
                /\ swallowed' = Swallow(r)
                /\ waitFatal' = (r = "error")
                /\ IF wait_failed(r)
                   THEN pc' = "ret" /\ i' = i
                   ELSE pc' = "pl_wait" /\ i' = i + 1
          /\ UNCHANGED return_code
       \/ /\ ~(i <= pipe_count)
          /\ return_code' = GENERAL_SUCCESS
          /\ pc' = "ret"
          /\ UNCHANGED <<procs, waitLog, swallowed, waitFatal, i>>
    /\ UNCHANGED <<hostVars, dispatches, arglist, count, kind, return_value,
                   is_foreground, preparation_handler, pid, arglist_index,
                   pipe_from_prev, pipe_to_next, pids, pipe_count, nextPipe, forkFailed,
                   pipeFailed, pidsOverflow, line, pipesMade,
                   failVars, pfds>>


(* ------------------------ the children --------------------------------- *)
\* Under FIFO scheduling a child runs only once every older child is collected.
Schedulable(p) == env.fifo => \A q \in 1..(p - 1) : procs[q].st = "reaped"

\* A terminating child raises SIGCHLD for the interpreter; with the default
\* disposition the signal is dropped.
RaiseSigchld == sigchldPending \/ (disp.chld = "handler")

DispositionFailures == {"sigchld", "sigint"}
LocalFailures == {"open", "dup", "dupin", "dupout", "exec"}
\* p is a child of the call that is running now.
InCall(p) == procs[p].n = dispatches /\ pc # "idle"

ChildStep(p, next) ==
    /\ procs' = [procs EXCEPT ![p] = next]
    /\ sigchldPending' = IF next.st = "zombie" THEN RaiseSigchld ELSE sigchldPending
    /\ sigFailed' = (sigFailed \/ (InCall(p) /\ next.fail \in DispositionFailures))
    /\ childFailed' = (childFailed \/ (InCall(p) /\ next.fail \in LocalFailures))
    /\ UNCHANGED <<env, hostState, disp, hActive, callVars, cmdVars, pipeVars,
                   nextPipe, line, forkFailed, pipeFailed, waitFatal, waitLog,
                   swallowed, pidsOverflow, pipesMade, pfds>>

ChildRunCommand(p) ==
    /\ procs[p].st = "forked" /\ procs[p].code = "cmd" /\ Schedulable(p)
    /\ \E o \in ChildOutcomesCmd(procs[p]) : ChildStep(p, run_command_child(procs[p], o))

ChildRunPiped(p) ==
    /\ procs[p].st = "forked" /\ procs[p].code = "pipe" /\ Schedulable(p)
    /\ \E o \in ChildOutcomesPipe(procs[p]) : ChildStep(p, run_piped_child(procs[p], o))

\* The replaced program terminates; the interpreter never reads the status.
ExitCodes == {0}

ChildExit(p) ==
    /\ procs[p].st = "running" /\ Schedulable(p)
    /\ \E s \in ExitCodes : ChildStep(p, ExitProc(procs[p], s, "none"))

(* ------------------------ SIGINT -------------------------------------- *)
\* What waitpid would report for a child SIGINT terminated.
SigintStatus == 2

\* SIGINT delivered to the interpreter: ignored while the disposition is
\* "ign", fatal while it is the default.
SigintShell ==
    /\ disp.int = "dfl" /\ hostState # "killed"
    /\ hostState' = "killed"
    /\ UNCHANGED <<env, disp, sigchldPending, hActive, callVars, cmdVars, pipeVars,
                   histVars, pfds, procs>>

\* SIGINT delivered to a child that runs its program: fatal under the default
\* disposition, without effect when ignored.
SigintChild(p) ==
    /\ procs[p].st = "running" /\ procs[p].sigint = "dfl" /\ Schedulable(p)
    /\ ChildStep(p, ExitProc(procs[p], SigintStatus, "killed"))

(* ------------------------ sigchld_handler ------------------------------ *)
SigchldDeliver ==
    /\ sigchldPending /\ ~hActive /\ disp.chld = "handler"
    /\ hActive' = TRUE
    /\ sigchldPending' = FALSE
    /\ UNCHANGED <<env, hostState, disp, callVars, cmdVars, pipeVars, histVars,
                   pfds, procs>>

\* One turn of "while (waitpid(-1, NULL, WNOHANG) > 0) {}" that collects a child.
HandlerReap ==
    /\ hActive
    /\ \E z \in Zombies : procs' = [procs EXCEPT ![z] = ReapProc(procs[z])]
    /\ UNCHANGED <<hostVars, callVars, cmdVars, pipeVars, histVars, pfds>>

\* A variant that returns after any turn ("if" in place of "while").
HandlerReturnAfterOne ==
    /\ hActive
    /\ hActive' = FALSE
    /\ UNCHANGED <<env, hostState, disp, sigchldPending, callVars, cmdVars, pipeVars,
                   histVars, pfds, procs>>

\* The turn that finds no terminated child ends the handler.
HandlerReturn ==
    /\ hActive /\ Zombies = {}
    /\ hActive' = FALSE
    /\ UNCHANGED <<env, hostState, disp, sigchldPending, callVars, cmdVars, pipeVars,
                   histVars, pfds, procs>>

(* ------------------------ specifications ------------------------------- *)
Next ==
    \/ Prepare \/ Finalize \/ Dispatch \/ ClassifyStep
    \/ BackgroundBranch \/ InputBranch \/ OutputBranch \/ SimpleBranch
    \/ RciFork \/ RciWait \/ RciReap
    \/ PipedStart \/ PipedPipe \/ PipedFork \/ PipedParent \/ PipedWait
    \/ ProcessArglistReturn
    \/ \E p \in Pids : ChildRunCommand(p) \/ ChildRunPiped(p) \/ ChildExit(p)
    \/ SigintShell
    \/ \E p \in Pids : SigintChild(p)
    \/ SigchldDeliver \/ HandlerReap \/ HandlerReturn

Spec == Init /\ [][Next]_vars

\* A pending signal is delivered and the handler's loop runs to its end.
FairSpec ==
    Spec /\ WF_vars(SigchldDeliver) /\ WF_vars(HandlerReap) /\ WF_vars(HandlerReturn)

\* One call with the long pipelines among its inputs, the children scheduled
\* oldest first, and a process limit that lets a full pipeline start.
InitBound ==
    InitWith([lines |-> Lines \cup LongLines, calls |-> 1,
              nproc |-> MaxProcs + MaxPipeCount + 1, fifo |-> TRUE, intr |-> TRUE])

SpecBound == InitBound /\ [][Next]_vars

\* One call by an interpreter that was started with any of its standard
\* descriptors open or closed.
StartTables ==
    {t \in [Fds -> {Tty, Closed}] : \A f \in Fds : f > 2 => t[f] = Closed}

RedirectLines == { <<"w", "f", "<", "f">>, <<"w", "f", ">", "f">> }

InitFds ==
    \E t \in StartTables :
        InitFrom([lines |-> Lines \cup RedirectLines, calls |-> 1, nproc |-> MaxProcs,
                  fifo |-> FALSE, intr |-> TRUE], t)

SpecFds == InitFds /\ [][Next]_vars

\* One call on pipelines of every shape: "|" first, last or doubled, between
\* words that tell the stages apart.
PipeTokens == {"w", "f", "|"}
PipeArrays ==
    {l \in UNION {[1..n -> PipeTokens] : n \in 1..MaxLen} :
        \E k \in 1..Len(l) : l[k] = "|"}

InitRuns ==
    InitWith([lines |-> Lines \cup PipeArrays, calls |-> 1, nproc |-> MaxLen + 1,
              fifo |-> TRUE, intr |-> TRUE])

SpecRuns == InitRuns /\ [][Next]_vars

\* One call in an environment where a blocking wait returns only when the
\* child has terminated, and where a program reading a pipe terminates only
\* once the pipe has no writer left. In a run of one call the pipe a stage k > 0
\* reads has id k.
PipeHasWriter(id) ==
    \/ \E f \in Fds : pfds[f] = PipeEnd(id, "w")
    \/ \E q \in Pids : \E f \in Fds : procs[q].fds[f] = PipeEnd(id, "w")

ProgramCanEnd(p) ==
    (procs[p].code = "pipe" /\ procs[p].stage > 0) => ~PipeHasWriter(procs[p].stage)

ChildExitAtEof(p) == ProgramCanEnd(p) /\ ChildExit(p)

CallStep ==
    \/ ClassifyStep
    \/ BackgroundBranch \/ InputBranch \/ OutputBranch \/ SimpleBranch
    \/ RciFork \/ RciWait \/ RciReap
    \/ PipedStart \/ PipedPipe \/ PipedFork \/ PipedParent \/ PipedWait
    \/ ProcessArglistReturn

ChildProgress ==
    \E p \in Pids : ChildRunCommand(p) \/ ChildRunPiped(p) \/ ChildExitAtEof(p)

NextEof ==
    \/ Prepare \/ Finalize \/ Dispatch
    \/ CallStep
    \/ ChildProgress
    \/ SigintShell
    \/ \E p \in Pids : SigintChild(p)
    \/ SigchldDeliver \/ HandlerReap \/ HandlerReturn

InitEof ==
    InitWith([lines |-> Lines \cup {PipeLine(2)}, calls |-> 1, nproc |-> MaxProcs + 1,
              fifo |-> FALSE, intr |-> FALSE])

\* The interpreter and its children keep running, a pending signal is
\* delivered and the handler's loop runs to its end.
SpecEof ==
    /\ InitEof /\ [][NextEof]_vars
    /\ WF_vars(CallStep) /\ WF_vars(ChildProgress)
    /\ WF_vars(SigchldDeliver) /\ WF_vars(HandlerReap) /\ WF_vars(HandlerReturn)

\* The classifier alone, on every token array of 1..MaxLen tokens: the state
\* right after process_arglist is entered with that array.
TokenArrays == UNION {[1..n -> Tokens] : n \in 1..MaxLen}

InitClassify ==
    /\ env = [lines |-> TokenArrays, calls |-> 1, nproc |-> MaxProcs, fifo |-> FALSE,
             intr |-> TRUE]
    /\ hostState = "ready"
    /\ disp = [int |-> "ign", chld |-> "handler"]
    /\ pfds = StdTable
    /\ procs = <<>>
    /\ sigchldPending = FALSE
    /\ hActive = FALSE
    /\ pc = "classify"
    /\ dispatches = 1
    /\ line \in TokenArrays
    /\ arglist = ArgOf(line)
    /\ count = Len(line)
    /\ kind = "none"
    /\ is_foreground = TRUE
    /\ preparation_handler = "none"
    /\ pid = 0
    /\ return_code = GENERAL_FAILURE
    /\ arglist_index = 0
    /\ pipe_from_prev = NoPipe
    /\ pipe_to_next = NoPipe
    /\ pids = NoPids
    /\ pipe_count = 0
    /\ i = 0
    /\ return_value = PROC_ARGLIST_STOP
    /\ nextPipe = 0
    /\ forkFailed = FALSE
    /\ pipeFailed = FALSE
    /\ waitFatal = FALSE
    /\ waitLog = <<>>
    /\ swallowed = {}
    /\ sigFailed = FALSE
    /\ childFailed = FALSE
    /\ pipesMade = 0
    /\ pidsOverflow = FALSE

SpecClassify == InitClassify /\ [][ClassifyStep]_vars


(* ======================================================================= *)
(* The claims                                                              *)
(* ======================================================================= *)
\* The last process_arglist call has returned.
Returned == pc = "idle" /\ dispatches > 0
Continued == return_value = PROC_ARGLIST_CONTINUE
Stopped == return_value = PROC_ARGLIST_STOP
\* The children the current (or last) call forked.
CallChildren == {p \in Pids : procs[p].n = dispatches}
Terminated(p) == procs[p].st \in {"zombie", "reaped"}

\* C1: whenever process_arglist has returned, every foreground child it forked
\* during that call has terminated and has been reaped.
C1_ForegroundReapedOnReturn ==
    Returned => \A p \in CallChildren : procs[p].fg => procs[p].st = "reaped"

C3_FailureStops ==
    Returned /\ (forkFailed \/ pipeFailed \/ sigFailed) => Stopped

\* C3, amended: a fork or a pipe creation that fails while the call runs makes
\* the call return stop; a disposition change fails only in a child, which it
\* terminates with a non-zero status, and when it is the only failure of the
\* call the call returns continue.
C3_ForkPipeFailureStops ==
    /\ Returned /\ (forkFailed \/ pipeFailed) => Stopped
    /\ Returned /\ sigFailed /\ ~forkFailed /\ ~pipeFailed /\ ~waitFatal => Continued
    /\ \A p \in Pids :
          procs[p].fail \in DispositionFailures =>
              procs[p].st = "zombie" /\ procs[p].status # 0

\* C3's case: a pipeline call in which a fork or pipe creation failed, returned.
C3_Witness ==
    /\ Returned /\ kind = "Pipeline" /\ (forkFailed \/ pipeFailed) /\ Stopped
    /\ CallChildren # {}

\* C4: a child-local failure (open, dup2, execvp) terminates that child with a
\* non-zero status before any program replacement, changes nothing in the
\* interpreter (descriptor table, dispositions, position, return code) nor in
\* any other child, and a call whose only failures are child-local returns
\* continue.
C4_FailedChildExits ==
    \A p \in Pids :
        procs[p].fail \in LocalFailures => procs[p].st = "zombie" /\ procs[p].status # 0

C4_NotAStop ==
    Returned /\ childFailed /\ ~forkFailed /\ ~pipeFailed /\ ~waitFatal => Continued

C4_OnlyTheChild ==
    \A p \in Pids :
        (procs[p].st = "forked" /\ procs'[p].st = "zombie"
              /\ procs'[p].fail \in LocalFailures)
            => /\ pfds' = pfds /\ disp' = disp /\ pc' = pc
               /\ return_code' = return_code /\ return_value' = return_value
               /\ \A q \in Pids \ {p} : procs'[q] = procs[q]

C4_ChildLocalFailure ==
    [](C4_FailedChildExits /\ C4_NotAStop) /\ [][C4_OnlyTheChild]_vars

\* C4's case: a pipeline call returned continue although a stage's child failed
\* locally while its sibling was replaced normally.
C4_Witness ==
    /\ Returned /\ kind = "Pipeline" /\ childFailed /\ Continued
    /\ \E q \in CallChildren : procs[q].st = "running"

\* C5: a blocking wait that reports ECHILD (the handler collected the child
\* first) or EINTR is not an error: unless a wait fails otherwise the call
\* returns continue, and the waits of a pipeline are issued for every stage in
\* stage order.
StageOrder(log) == \A k \in 1..Len(log) : log[k] = k - 1

C5_SwallowedWaits ==
    /\ StageOrder(waitLog)
    /\ (Returned /\ swallowed # {} /\ ~waitFatal) =>
          /\ Continued
          /\ kind = "Pipeline" => Len(waitLog) = pipe_count + 1

\* C5's case: a pipeline call returned after the handler had collected a stage
\* before its wait and another wait was interrupted.
C5_Witness ==
    /\ Returned /\ kind = "Pipeline" /\ swallowed = {"echild", "eintr"} /\ Continued


\* C6: a background call never issues a blocking wait and returns continue
\* (unless the fork failed), possibly while its child still runs; and a
\* background child that has terminated is eventually collected while the
\* interpreter is up, by the handler alone.
C6_NeverBlocks == kind = "Background" => (waitLog = <<>> /\ pc # "rci_wait")

C6_Continues == (Returned /\ kind = "Background" /\ ~forkFailed) => Continued

C6_BackgroundReaped ==
    /\ [](C6_NeverBlocks /\ C6_Continues)
    /\ \A p \in 1..MaxProcs :
          (p \in Pids /\ ~procs[p].fg /\ procs[p].st = "zombie")
              ~> ((p \in Pids /\ procs[p].st = "reaped")
                     \/ hostState \in {"down", "killed"})

\* C6's case: a background call has returned continue while its child runs.
C6_Witness ==
    /\ Returned /\ kind = "Background" /\ Continued
    /\ \E p \in CallChildren : procs[p].st = "running"

\* C7: the branch taken is exactly one of the five kinds, by first match in the
\* order "|" anywhere, "&" last, "<" second to last, ">" second to last,
\* otherwise simple; and classifying leaves the token array as it was.
HasPipe == \E k \in 1..Len(line) : line[k] = "|"
EndsWithAmp == line[Len(line)] = "&"
InputShape == Len(line) >= 2 /\ line[Len(line) - 1] = "<"
OutputShape == Len(line) >= 2 /\ line[Len(line) - 1] = ">"

C7_FirstMatch ==
    kind # "none" =>
        /\ kind \in {"Pipeline", "Background", "InputRedirect", "OutputRedirect", "Simple"}
        /\ (kind = "Pipeline") = HasPipe
        /\ (kind = "Background") = (~HasPipe /\ EndsWithAmp)
        /\ (kind = "InputRedirect") = (~HasPipe /\ ~EndsWithAmp /\ InputShape)
        /\ (kind = "OutputRedirect")
              = (~HasPipe /\ ~EndsWithAmp /\ ~InputShape /\ OutputShape)

C7_ArrayKept == (pc = "classify") => (arglist' = arglist /\ count' = count)

C7_Classification == []C7_FirstMatch /\ [][C7_ArrayKept]_vars

\* C7's case: an array that matches two rules, classified by the earlier one.
C7_Witness == kind = "Background" /\ InputShape

\* C8: a line with more than 9 pipe operators is dropped (no fork, no pipe,
\* result continue); a line with exactly 9 is accepted, its 10 stages are all
\* launched unless a fork or pipe creation fails, and every process id is
\* stored inside pids[0..9].
NPipes == Cardinality({k \in 1..Len(line) : line[k] = "|"})
Launched == pc \in {"pl_wait", "ret", "idle"} /\ ~forkFailed /\ ~pipeFailed

C8_PipelineBound ==
    /\ ~pidsOverflow
    /\ (kind = "Pipeline" /\ NPipes > 9) =>
          /\ CallChildren = {} /\ pipesMade = 0
          /\ pc \in {"run_piped", "ret", "idle"}
          /\ Returned => Continued
    /\ (kind = "Pipeline" /\ NPipes = 9 /\ Launched) =>
          /\ Cardinality(CallChildren) = 10
          /\ \A k \in 0..9 : pids[k] \in CallChildren /\ procs[pids[k]].stage = k

\* C8's case: a pipeline of 10 stages, all launched, has returned continue.
C8_Witness ==
    /\ Returned /\ NPipes = 9 /\ Continued /\ Cardinality(CallChildren) = 10

\* C9: when a pipeline call has returned, the interpreter holds no pipe endpoint.
C9_NoPipeEndOnReturn == (Returned /\ kind = "Pipeline") => PipeEndsOf(pfds) = {}

\* C10, as stated: during the launch loop the interpreter holds at most 2 pipe
\* endpoints.
InLaunchLoop == pc \in {"pl_pipe", "pl_fork", "pl_parent"}

C10_AtMostTwoEnds == InLaunchLoop => Cardinality(PipeEndsOf(pfds)) <= 2

\* C10, amended: during the launch loop the interpreter holds at most 3 pipe
\* endpoints, and 3 only for a middle stage (neither first nor last), between
\* creating that stage's pipe and the closes after its fork: the previous
\* pipe's read end and both ends of the new pipe.
C10_AtMostThreeEnds ==
    InLaunchLoop =>
        /\ Cardinality(PipeEndsOf(pfds)) <= 3
        /\ Cardinality(PipeEndsOf(pfds)) = 3 =>
              (pc \in {"pl_fork", "pl_parent"} /\ 0 < i /\ i < pipe_count)

\* C10's case: stage 8 of a 10-stage pipeline, its pipe just created.
C10_Witness ==
    /\ pc = "pl_fork" /\ pipe_count = 9 /\ i = 8
    /\ Cardinality(PipeEndsOf(pfds)) = 3


\* The pipe a descriptor-table entry is the write end, resp. read end, of
\* (0: none). In a run of one call the pipe created for stage k has id k + 1.
WriteEndOf(ent) == IF ent.k = "pipe" /\ ent.e = "w" THEN ent.id ELSE 0
ReadEndOf(ent) == IF ent.k = "pipe" /\ ent.e = "r" THEN ent.id ELSE 0
ParentWrites(id) == \E f \in Fds : WriteEndOf(pfds[f]) = id
ChildWrites(p, id) == \E f \in Fds : WriteEndOf(procs[p].fds[f]) = id
PipeIds == 1..(MaxPipeCount + 1)

\* No child holds the write end of a pipe other than its own stage's, and a
\* stage that was replaced holds pipe ends on descriptors 0 and 1 only: the
\* read end of the pipe before it and the write end of the pipe after it.
ChildrenConfined ==
    \A p \in Pids :
        /\ \A id \in PipeIds : ChildWrites(p, id) => id = procs[p].stage + 1
        /\ (procs[p].st = "running" /\ procs[p].code = "pipe") =>
              /\ PipeEndsOf(procs[p].fds) \subseteq {STDIN_FILENO, STDOUT_FILENO}
              /\ ReadEndOf(procs[p].fds[STDIN_FILENO]) = procs[p].stage
              /\ WriteEndOf(procs[p].fds[STDOUT_FILENO])
                    = (IF procs[p].stage < NPipes THEN procs[p].stage + 1 ELSE 0)

\* Once the stage that writes a pipe has terminated and the interpreter has
\* closed its copy, the pipe has no writer.
NoWriterLeft ==
    \A p \in Pids :
        (procs[p].code = "pipe" /\ Terminated(p) /\ ~ParentWrites(procs[p].stage + 1))
            => \A q \in Pids : ~ChildWrites(q, procs[p].stage + 1)

C12_BothDefaultAtExec ==
    \A p \in Pids :
        procs[p].st = "running" => (procs[p].sigint = "dfl" /\ procs[p].sigchld = "dfl")

\* C12, amended: every child runs its program with SIGCHLD at the default
\* disposition; a foreground child (simple, redirected, pipeline stage) also
\* with SIGINT at the default, a background child with SIGINT still ignored as
\* inherited from the interpreter.
C12_DispositionsAtExec ==
    \A p \in Pids :
        procs[p].st = "running" =>
            /\ procs[p].sigchld = "dfl"
            /\ procs[p].sigint = (IF procs[p].fg THEN "dfl" ELSE "ign")
            /\ procs[p].n = dispatches => (procs[p].fg = (kind # "Background"))

\* C12's case: a background child and a foreground child both run their programs.
C12_Witness ==
    \E p, q \in Pids :
        /\ procs[p].st = "running" /\ ~procs[p].fg /\ procs[p].sigint = "ign"
        /\ procs[q].st = "running" /\ procs[q].fg /\ procs[q].code = "pipe"


\* C13: from a successful prepare until finalize the interpreter's dispositions
\* are (SIGINT ignored, SIGCHLD handled) whatever calls are made, so SIGINT
\* never terminates it, idle or waiting; a foreground child that runs its
\* program has SIGINT at the default, so the same signal terminates it, and
\* that changes nothing in the interpreter.
C13_ShellDispositions ==
    hostState = "ready" => disp = [int |-> "ign", chld |-> "handler"]

C13_ShellSurvives == hostState = "ready" => hostState' \in {"ready", "down"}

C13_ForegroundKillable ==
    \A p \in Pids : (procs[p].st = "running" /\ procs[p].fg) => procs[p].sigint = "dfl"

C13_KillIsLocal ==
    \A p \in Pids :
        (procs[p].st = "running" /\ procs'[p].fail = "killed")
            => /\ procs'[p].st = "zombie"
               /\ hostState' = hostState /\ disp' = disp /\ pc' = pc /\ pfds' = pfds

C13_InterruptIsolation ==
    /\ [](C13_ShellDispositions /\ C13_ForegroundKillable)
    /\ [][C13_ShellSurvives /\ C13_KillIsLocal]_vars

\* C13's case: the interpreter waits for a foreground child that SIGINT has
\* just terminated, and is still up.
C13_Witness ==
    /\ hostState = "ready" /\ pc = "rci_wait"
    /\ procs[pid].st = "zombie" /\ procs[pid].fail = "killed"


\* C14: finalize can be called in every state the host can call it in (before
\* prepare, after a failed prepare, after a successful one, after finalize), it
\* returns GENERAL_SUCCESS and leaves both dispositions at the default; applied
\* to its own result it changes nothing.
DefaultDispositions == [int |-> "dfl", chld |-> "dfl"]

C14_FinalizeResult ==
    LET r == finalize(disp)
    IN /\ r.rc = GENERAL_SUCCESS
       /\ r.disp = DefaultDispositions
       /\ finalize(r.disp) = r

C14_FinalizeCallable ==
    (Main /\ pc = "idle" /\ hostState # "killed") => ENABLED Finalize

C14_DownIsDefault == hostState = "down" => disp = DefaultDispositions

C14_FinalizeStep ==
    (hostState # "down" /\ hostState' = "down")
        => (disp' = DefaultDispositions /\ pfds' = pfds /\ procs' = procs /\ pc' = pc)

C14_FinalizeIdempotent ==
    /\ [](C14_FinalizeResult /\ C14_FinalizeCallable /\ C14_DownIsDefault)
    /\ [][C14_FinalizeStep]_vars

\* C14's case: prepare set SIGINT to ignored and then failed to install the
\* handler; finalize applied to that state gives the default dispositions.
C14_Witness ==
    /\ hostState = "failed" /\ disp = [int |-> "ign", chld |-> "dfl"]
    /\ finalize(disp).disp = DefaultDispositions
    /\ finalize(finalize(disp).disp) = finalize(disp)


\* C15: whatever descriptors the interpreter was started with, a child of a
\* redirected line that runs its program has the opened file on its standard
\* input (for "<") or standard output (for ">") and was given exactly the
\* tokens before the operator.
C15_RedirectedAtExec ==
    \A p \in Pids :
        (procs[p].n = dispatches /\ procs[p].st = "running" /\ procs[p].prep # "none") =>
            /\ procs[p].fds[RedirTarget(procs[p].prep)] = FileObj(RedirMode(procs[p].prep))
            /\ procs[p].argv = SubSeq(line, 1, Len(line) - 2)


\* C16: the handler returns only when no terminated child is left unreaped,
\* however many terminations one delivery stands for; a child is reaped once
\* (only a zombie is reaped, and a reaped child stays reaped); and when all
\* children have terminated for good, the run reaches and stays in a state
\* without unreaped terminated children, as long as the interpreter is up.
C16_ReturnsWhenNoneLeft == (hActive /\ ~hActive') => Zombies = {}

C16_ReapedOnce ==
    \A p \in Pids :
        /\ procs[p].st = "reaped" => procs'[p].st = "reaped"
        /\ (procs'[p].st = "reaped" /\ procs[p].st # "reaped") => procs[p].st = "zombie"

AllTerminated == \A p \in Pids : Terminated(p)
NoZombieOrDown == Zombies = {} \/ hostState \in {"down", "killed"}

C16_HandlerReapsAll ==
    /\ [][C16_ReturnsWhenNoneLeft /\ C16_ReapedOnce]_vars
    /\ (<>[]AllTerminated) => (<>[]NoZombieOrDown)

\* C16's case: one delivery, no further signal pending, two terminated children
\* for the handler to reap.
C16_Witness == hActive /\ ~sigchldPending /\ Cardinality(Zombies) = 2


\* C17: only the interpreter forks, one child per fork; a forked child either
\* replaces its image or exits and never forks. A call without fork or pipe
\* failure forks one child for a simple, background or redirected line, one per
\* stage (pipes + 1) for an accepted pipeline and none for a rejected one. A
\* pipeline's waits start after its last stage is forked and go in stage order.
ExpectedChildren ==
    IF kind = "Pipeline" THEN (IF NPipes > 9 THEN 0 ELSE NPipes + 1) ELSE 1

C17_ChildCount ==
    (pc \in {"ret", "idle"} /\ dispatches > 0 /\ ~forkFailed /\ ~pipeFailed) =>
        /\ Cardinality(CallChildren) = ExpectedChildren
        /\ kind = "Pipeline" =>
              \A p, q \in CallChildren : procs[p].stage = procs[q].stage => p = q

C17_WaitsAfterLaunch ==
    /\ StageOrder(waitLog)
    /\ (kind = "Pipeline" /\ waitLog # <<>>) =>
          /\ Cardinality(CallChildren) = NPipes + 1
          /\ pc \in {"pl_wait", "ret", "idle"}

C17_OnlyParentForks ==
    /\ Len(procs') > Len(procs) =>
          /\ Len(procs') = Len(procs) + 1
          /\ ~hActive /\ pc \in {"rci_fork", "pl_fork"}
          /\ \A p \in Pids : procs'[p] = procs[p]
    /\ \A p \in Pids :
          (procs[p].st = "forked" /\ procs'[p] # procs[p]) =>
              /\ procs'[p].st \in {"running", "zombie"}
              /\ Len(procs') = Len(procs) /\ pc' = pc /\ i' = i

C17_ForksAndWaits ==
    [](C17_ChildCount /\ C17_WaitsAfterLaunch) /\ [][C17_OnlyParentForks]_vars

\* C17's case: a three-stage pipeline has returned after forking three children
\* and waiting for stages 0, 1, 2 in that order.
C17_Witness ==
    /\ Returned /\ NPipes = 2 /\ Cardinality(CallChildren) = 3
    /\ waitLog = <<0, 1, 2>>


\* The i-th maximal run of tokens of l between "|" tokens or the ends of l.
FirstPipe(l) ==
    IF \E k \in 1..Len(l) : l[k] = "|"
    THEN CHOOSE k \in 1..Len(l) : l[k] = "|" /\ \A m \in 1..(k - 1) : l[m] # "|"
    ELSE Len(l) + 1

RECURSIVE RunOf(_, _)
RunOf(l, n) ==
    IF n = 0 THEN SubSeq(l, 1, FirstPipe(l) - 1)
    ELSE RunOf(SubSeq(l, FirstPipe(l) + 1, Len(l)), n - 1)

\* The launch loop reads the token array at arglist_index only, up to the next
\* terminator.
IndexInArray == InLaunchLoop => arglist_index \in 0..count

\* C18, as stated: every stage of an accepted pipeline, when no system call
\* fails, replaces its image with the program and arguments of its run of
\* tokens, also when "|" is first, last or doubled; the token index stays
\* within 0..count while it is read.
C18_StageRunsItsTokens ==
    /\ IndexInArray
    /\ \A p \in CallChildren :
          (procs[p].code = "pipe" /\ procs[p].st = "forked") =>
              LET r == run_piped_child(procs[p], "ok")
              IN r.st = "running" /\ r.argv = RunOf(line, procs[p].stage)

\* C18, amended: a stage whose run of tokens is not empty, when no system call
\* fails, replaces its image with exactly that run as program and arguments; a
\* stage whose run is empty ("|" first, last or doubled) passes a null program
\* name to execvp and terminates with a non-zero status without replacing its
\* image; the token index stays within 0..count while it is read.
C18_StageArguments ==
    /\ IndexInArray
    /\ \A p \in CallChildren :
          /\ (procs[p].code = "pipe" /\ procs[p].st = "forked") =>
                LET r == run_piped_child(procs[p], "ok")
                    run == RunOf(line, procs[p].stage)
                IN IF run # <<>>
                   THEN r.st = "running" /\ r.argv = run
                   ELSE r.st = "zombie" /\ r.status # 0
          /\ (procs[p].code = "pipe" /\ procs[p].st = "running") =>
                (procs[p].argv = RunOf(line, procs[p].stage) /\ procs[p].argv # <<>>)
          /\ (procs[p].code = "pipe" /\ procs[p].fail = "crash") =>
                (RunOf(line, procs[p].stage) = <<>> /\ procs[p].status # 0)

\* C18's case: in "| | f" the last stage runs "f" after the two stages whose
\* runs are empty have terminated without a program and were collected.
C18_Witness ==
    /\ line = <<"|", "|", "f">>
    /\ \E q \in CallChildren :
          /\ procs[q].stage = 2 /\ procs[q].st = "running" /\ procs[q].argv = <<"f">>
    /\ \A p \in CallChildren : procs[p].stage < 2 => procs[p].st = "reaped"


\* C19: when stage 0's program terminates on its own and a later stage's
\* program terminates once the pipe it reads has no writer, every call on an
\* accepted pipeline returns, and returns continue unless a fork or a pipe
\* creation failed: the interpreter is never left waiting for a stage that
\* cannot terminate because a write end is still open somewhere.
InPipelineCall == kind = "Pipeline" /\ pc # "idle"

C19_ContinueUnlessFailed ==
    (Returned /\ kind = "Pipeline" /\ ~forkFailed /\ ~pipeFailed) => Continued

C19_PipelineReturns ==
    /\ []C19_ContinueUnlessFailed
    /\ InPipelineCall ~> Returned

\* C19's case: a three-stage pipeline has returned continue after waiting for
\* its three stages, none of which was collected by the handler first.
C19_Witness ==
    /\ Returned /\ NPipes = 2 /\ Continued /\ waitLog = <<0, 1, 2>>
    /\ swallowed = {}


\* C20: when a pipeline is rejected for having more than 9 pipe operators, the
\* token array is as it was passed in, the "|" tokens still in place.
C20_RejectedArrayKept ==
    (kind = "Pipeline" /\ NPipes > 9 /\ pc \in {"ret", "idle"}) => arglist = ArgOf(line)

====
